---- MODULE Spec2Model ----
(***************************************************************************)
(* Model of render.py (nightly dashboard): main() polls the GitLab API for *)
(* the pipelines of one project, the jobs of the latest pipeline and the   *)
(* test reports of the fetched pipelines, aggregates them, renders a       *)
(* template and writes render/rendered.html.                               *)
(*                                                                         *)
(* main() is cut at its external effects: one action per HTTP request      *)
(* (with all the code that runs up to the next request), one for the       *)
(* template render and one for the file write.  The API server's content   *)
(* is fixed in the initial state (variable api); what each single request  *)
(* answers (its HTTP status) is chosen when the request is made.           *)
(***************************************************************************)
EXTENDS Integers, Sequences, FiniteSets, TLC

(* ---------------------------- bounds ----------------------------------- *)

\* longest pipelines-list response the server answers with
MaxResp == 52
\* longest jobs-list response in the job families
MaxJobs == 3
\* longest pipelines list whose test reports vary freely
MaxHist == 2
\* most test suites / most test cases per suite in the latest test report
MaxSuites == 2
MaxCases == 2
\* largest initial state of the random generator
MaxSeed == 1

(* ------------------------ program constants ---------------------------- *)

GITLAB_API_URL == "https://git.esss.dk/api/v4"
DMSC_NIGHTLY_PROJECT_ID == 301
TEAMS == <<"ECDC", "SCIPP", "SWAT", "DST", "DONKI", "IDS">>
\* pipelines[:50]
SliceLimit == 50
filename == "render/rendered.html"

(* ----------------------------- helpers --------------------------------- *)

Min(a, b) == IF a < b THEN a ELSE b

\* the number of positions of sequence s that satisfy Test
Count(s, Test(_)) == Cardinality({i \in 1..Len(s) : Test(s[i])})

\* list.reverse()
Reverse(s) == [i \in 1..Len(s) |-> s[Len(s) + 1 - i]]

\* s[-1]
Last(s) == s[Len(s)]

\* a two-digit, zero-padded decimal (%d, %I, %M of strftime; the fraction of .2f)
Pad2(n) == IF n < 10 THEN "0" \o ToString(n) ELSE ToString(n)

(* --------------------------- request URLs ------------------------------ *)

PipelinesUrl(project_id) ==
    GITLAB_API_URL \o "/projects/" \o ToString(project_id)
        \o "/pipelines?ref=main&per_page=50"

JobsUrl(project_id, pipeline_id) ==
    GITLAB_API_URL \o "/projects/" \o ToString(project_id) \o "/pipelines/"
        \o ToString(pipeline_id) \o "/jobs?per_page=100"

TestReportUrl(project_id, pipeline_id) ==
    GITLAB_API_URL \o "/projects/" \o ToString(project_id) \o "/pipelines/"
        \o ToString(pipeline_id) \o "/test_report"

\* What a request is answered with: a status code and a body that is the
\* endpoint's JSON or is not JSON at all.  A success carries the JSON; a 3xx
\* response that requests does not follow may carry either.
Responses ==
    {[code |-> 200, json |-> TRUE], [code |-> 300, json |-> TRUE],
     [code |-> 300, json |-> FALSE], [code |-> 404, json |-> FALSE],
     [code |-> 500, json |-> FALSE]}

\* RaisesForStatus raising for the server errors only
RaisesForServerError(code) == code >= 500 /\ code < 600

\* requests.Response.raise_for_status(): raises HTTPError for 4xx and 5xx only
RaisesForStatus(code) == code >= 400 /\ code < 600

(* ------------------- the API server's content -------------------------- *)
(* What the three endpoints answer with is the JSON the code reads: the    *)
(* fields it indexes, nothing else.                                        *)

\* the pipelines list, most recent first: n entries with distinct ids, the
\* latest one first; updated_at is the timestamp's fields
PipelineIds(n) == {42 + k : k \in 0..(n - 1)}
UpdatedAt(id) ==
    [year |-> 2024, month |-> (id % 12) + 1, day |-> (id % 28) + 1,
     hour |-> id % 24, minute |-> id % 60]
PipelineList(n) ==
    [i \in 1..n |-> [id |-> 42 + n - i, updated_at |-> UpdatedAt(42 + n - i)]]

\* one entry of the jobs list
JobStatuses == {"success", "failed", "running"}
JobEntry(i, status) ==
    [web_url |-> "https://git.esss.dk/dmsc-nightly/-/jobs/" \o ToString(i),
     status |-> status, name |-> "job" \o ToString(i), stage |-> "test"]
JobLists ==
    UNION {{[i \in 1..k |-> JobEntry(i, f[i])] : f \in [1..k -> JobStatuses]}
              : k \in 0..MaxJobs}
DefaultJobs == <<JobEntry(1, "failed"), JobEntry(2, "success")>>

\* the test suites of a test report: suite i is named SuiteName(i), a string
\* given as its characters, and holds test cases with a status each
CaseStatuses == {"skipped", "failed"}
SuiteNames == << <<"A", " ", "B">>, <<"u", "n", "i", "t">>, <<"a", "/", "b", "&", "c">> >>
SuiteName(i) == SuiteNames[((i - 1) % Len(SuiteNames)) + 1]
TestCase(i, j, status) ==
    [classname |-> "Class" \o ToString(i), name |-> "test_" \o ToString(j),
     status |-> status]
CaseStatusLists == UNION {[1..k -> CaseStatuses] : k \in 0..MaxCases}
TestSuite(i, statuses) ==
    [name |-> SuiteName(i),
     test_cases |-> [j \in 1..Len(statuses) |-> TestCase(i, j, statuses[j])]]
SuiteLists ==
    UNION {{[i \in 1..m |-> TestSuite(i, f[i])] : f \in [1..m -> CaseStatusLists]}
              : m \in 0..MaxSuites}
DefaultSuites == <<TestSuite(1, <<"failed", "skipped">>)>>

\* a test report: the three counts and the suites
TestCounts ==
    [total_count : {0, 3, 10}, failed_count : {0, 2}, skipped_count : {0, 1}]
DefaultCounts(id) ==
    [total_count |-> (id % 3) * 5, failed_count |-> id % 4, skipped_count |-> id % 2]
TestReport(counts, suites) ==
    [total_count |-> counts.total_count, failed_count |-> counts.failed_count,
     skipped_count |-> counts.skipped_count, test_suites |-> suites]

\* What a run starts from: the server's content, the generator's seed and the
\* output file ("absent", or "stale": there from an earlier run).  Four
\* families, each varying one part: the length of the pipelines list (and the
\* output file), the test counts of the pipelines, the jobs of the latest
\* pipeline (and the seed), the test suites of the latest pipeline.
LongWorlds ==
    {[pipelines |-> PipelineList(n), jobs |-> DefaultJobs,
      reports |-> [p \in PipelineIds(n) |-> TestReport(DefaultCounts(p), DefaultSuites)],
      seed |-> 0, file |-> f] : n \in 0..MaxResp, f \in {"absent", "stale"}}
ReportWorlds ==
    UNION {{[pipelines |-> PipelineList(n), jobs |-> DefaultJobs,
             reports |-> [p \in PipelineIds(n) |-> TestReport(c[p], DefaultSuites)],
             seed |-> 0, file |-> "stale"] : c \in [PipelineIds(n) -> TestCounts]}
              : n \in 1..MaxHist}
JobWorlds ==
    {[pipelines |-> PipelineList(1), jobs |-> js,
      reports |-> [p \in PipelineIds(1) |-> TestReport(DefaultCounts(p), DefaultSuites)],
      seed |-> sd, file |-> "stale"] : js \in JobLists, sd \in 0..MaxSeed}
SuiteWorlds ==
    {[pipelines |-> PipelineList(1), jobs |-> DefaultJobs,
      reports |-> [p \in PipelineIds(1) |-> TestReport(DefaultCounts(p), ss)],
      seed |-> 0, file |-> "stale"] : ss \in SuiteLists}
Worlds == LongWorlds \cup ReportWorlds \cup JobWorlds \cup SuiteWorlds

(* ------------------- main(): the pure computations --------------------- *)

\* The random generator: its state is a number, a draw reads it and advances
\* it.  random.choices(TEAMS, k=2) draws twice, with replacement.
RandomIndex(r) == (r % Len(TEAMS)) + 1
RandomNext(r) == (3 * r + 1) % 31
choices(r) == <<TEAMS[RandomIndex(r)], TEAMS[RandomIndex(RandomNext(r))]>>

\* ", ".join(random.choices(TEAMS, k=2))
temp_teams(r) == choices(r)[1] \o ", " \o choices(r)[2]

\* Job(job["web_url"], job["status"], job["name"], job["stage"], temp_teams)
Job(job, teams) ==
    [job_run_url |-> job.web_url, job_run_status |-> job.status,
     job_name |-> job.name, job_stage |-> job.stage, teams |-> teams]

\* PlaceJob with the else branch's job_obj.job_run_status = "" left out
PlaceJobKeepStatus(b, job, job_obj) ==
    IF job.status = "success"
    THEN [b EXCEPT !.success = Append(@, job_obj)]
    ELSE IF job.status = "failed"
    THEN [b EXCEPT !.failed = Append(@, job_obj)]
    ELSE [b EXCEPT !.others = Append(@, job_obj)]

\* the if / elif / else over job["status"]: the buckets after job_obj is placed
PlaceJob(b, job, job_obj) ==
    IF job.status = "success"
    THEN [b EXCEPT !.success = Append(@, job_obj)]
    ELSE IF job.status = "failed"
    THEN [b EXCEPT !.failed = Append(@, job_obj)]
    ELSE [b EXCEPT !.others = Append(@, [job_obj EXCEPT !.job_run_status = ""])]

\* the loop over jobs: the buckets and the generator after the first k jobs
RECURSIVE JobLoop(_, _, _)
JobLoop(jobs, seed, k) ==
    IF k = 0
    THEN [success |-> <<>>, failed |-> <<>>, others |-> <<>>, rng |-> seed]
    ELSE LET b == JobLoop(jobs, seed, k - 1)
             job_obj == Job(jobs[k], temp_teams(b.rng))
         IN  [PlaceJob(b, jobs[k], job_obj)
                 EXCEPT !.rng = RandomNext(RandomNext(b.rng))]

\* AllJobs with the failed jobs put first
AllJobsFailedFirst(b) == b.failed \o b.success \o b.others

\* all_jobs = success + failed + others
AllJobs(b) == b.success \o b.failed \o b.others

\* Last50 without the [:50]
Last50Unsliced(pipelines) == [i \in 1..Len(pipelines) |-> pipelines[i].id]

\* pipelines[:50], as ids
Last50(pipelines) ==
    [i \in 1..Min(Len(pipelines), SliceLimit) |-> pipelines[i].id]

\* FailedPercentage without the guard: the division by total_tests = 0, which
\* Python answers with ZeroDivisionError, shows as the denominator 0
FailedPercentageUnguarded(failed_tests, total_tests) ==
    [num |-> failed_tests * 100, den |-> total_tests]

\* (failed_tests / total_tests * 100) if total_tests else 0.0, as the exact
\* fraction num / den
FailedPercentage(failed_tests, total_tests) ==
    IF total_tests # 0
    THEN [num |-> failed_tests * 100, den |-> total_tests]
    ELSE [num |-> 0, den |-> 1]

\* the tuple appended to run_chart
ChartEntry(pid, test_report) ==
    <<pid, test_report.total_count,
      FailedPercentage(test_report.failed_count, test_report.total_count),
      test_report.failed_count, test_report.skipped_count>>

\* the pipeline id of the loop's next iteration, taken from the end of last_50
NextPidFromEnd(ids, chart) == ids[Len(ids) - Len(chart)]

\* for pid in last_50: the pipeline id of the loop's next iteration
NextPid(ids, chart) == ids[Len(chart) + 1]

\* ChartAfter without run_chart.reverse()
ChartAfterNoReverse(chart, entry, n) == Append(chart, entry)

\* run_chart after the report of last_50[k] is appended; the loop's last
\* iteration is followed by run_chart.reverse()
ChartAfter(chart, entry, n) ==
    IF Len(chart) + 1 = n THEN Reverse(Append(chart, entry)) ELSE Append(chart, entry)

\* urllib.parse.quote(string): letters, digits, "_.-~" and the default safe
\* "/" are kept; any other character becomes "%" and its code in hexadecimal
AlwaysSafe ==
    {"A", "B", "C", "D", "E", "F", "G", "H", "I", "J", "K", "L", "M", "N", "O",
     "P", "Q", "R", "S", "T", "U", "V", "W", "X", "Y", "Z",
     "a", "b", "c", "d", "e", "f", "g", "h", "i", "j", "k", "l", "m", "n", "o",
     "p", "q", "r", "s", "t", "u", "v", "w", "x", "y", "z",
     "0", "1", "2", "3", "4", "5", "6", "7", "8", "9", "_", ".", "-", "~"}
PercentCode(c) ==
    CASE c = " " -> "%20"
      [] c = "&" -> "%26"
      [] c = "?" -> "%3F"
      [] c = "=" -> "%3D"
      [] c = "%" -> "%25"
      [] c = "#" -> "%23"
      [] c = "+" -> "%2B"
RECURSIVE quote(_)
quote(string) ==
    IF string = <<>> THEN ""
    ELSE LET c == Head(string)
         IN  (IF c \in AlwaysSafe \cup {"/"} THEN c ELSE PercentCode(c))
                 \o quote(Tail(string))

\* job_name_url of a test suite
JobNameUrl(pipeline_id, job_name) ==
    "https://git.esss.dk/dmsc-nightly/dmsc-nightly/-/pipelines/"
        \o ToString(pipeline_id) \o "/test_report?job_name=" \o quote(job_name)

\* IsSkipped taking every case that did not succeed
IsNotSuccess(test_cases) == test_cases.status # "success"

\* test_cases["status"] == "skipped"
IsSkipped(test_cases) == test_cases.status = "skipped"

\* the inner loop: the entries one suite adds to skipped_test_suites
SuiteSkipped(test, pipeline_id) ==
    LET cases == SelectSeq(test.test_cases, IsSkipped)
    IN  [j \in 1..Len(cases) |->
            <<cases[j].classname, cases[j].name, JobNameUrl(pipeline_id, test.name)>>]

\* the outer loop: skipped_test_suites after the first k suites
RECURSIVE SkippedLoop(_, _, _)
SkippedLoop(test_suites, pipeline_id, k) ==
    IF k = 0 THEN <<>>
    ELSE SkippedLoop(test_suites, pipeline_id, k - 1)
             \o SuiteSkipped(test_suites[k], pipeline_id)

\* date.strftime("%B %d, %Y %I:%M %p") + " UTC"
MonthNames ==
    <<"January", "February", "March", "April", "May", "June", "July",
      "August", "September", "October", "November", "December">>
Hour12(hour) == IF hour % 12 = 0 THEN 12 ELSE hour % 12
FormattedDate(date) ==
    MonthNames[date.month] \o " " \o Pad2(date.day) \o ", " \o ToString(date.year)
        \o " " \o Pad2(Hour12(date.hour)) \o ":" \o Pad2(date.minute) \o " "
        \o (IF date.hour < 12 THEN "AM" ELSE "PM") \o " UTC"

\* f"{x:.2f}%" of the fraction x = num / den >= 0: x in hundredths, rounded to
\* the nearest (a tie to the even one), then printed with two decimals
Hundredths(x) ==
    LET q == (x.num * 100) \div x.den
        r == (x.num * 100) % x.den
    IN  IF 2 * r > x.den \/ (2 * r = x.den /\ q % 2 = 1) THEN q + 1 ELSE q
FormatPercentage(x) ==
    ToString(Hundredths(x) \div 100) \o "." \o Pad2(Hundredths(x) % 100) \o "%"

\* LatestPercentage reading the first element
FirstPercentage(percentage_data) == percentage_data[1]

\* percentage_data[-1]
LatestPercentage(percentage_data) == Last(percentage_data)

\* [i[k] for i in run_chart]
Column(run_chart, k) == [i \in 1..Len(run_chart) |-> run_chart[i][k]]

\* the keyword arguments of template.render
TemplateArgs(all_jobs, failed, run_chart, pipeline, skipped_test_suites) ==
    [gitlab_tests |-> all_jobs,
     failed_tests |-> failed,
     failed_job_percentage |-> FormatPercentage(LatestPercentage(Column(run_chart, 3))),
     pipeline_end_time |-> FormattedDate(pipeline.updated_at),
     teams |-> TEAMS,
     failing_test |-> Column(run_chart, 4),
     pipeline_run_ids |-> Column(run_chart, 1),
     skipped_tests |-> Column(run_chart, 5),
     number_of_tests |-> Column(run_chart, 2),
     pipeline_id |-> pipeline.id,
     skipped_test_suites |-> skipped_test_suites]

(* ------------------------------ state ---------------------------------- *)

VARIABLES
    api,        \* the server's content: pipelines, jobs, reports by pipeline id
    file0,      \* render/rendered.html before the run: "absent" or "stale"
    file,       \* render/rendered.html: "absent", "stale" or "written" (it
                \* holds content)
    rng,        \* the state of the random generator
    pc,         \* where main() is: the next external effect, "done", "aborted"
    error,      \* the exception that ended the run, "" if none
    status,     \* the HTTP status of the latest response, 0 before the first
    trace,      \* the external effects so far, in order: the requests, the
                \* render, the write
    pipeline,   \* <<latest_pipeline>> once get_pipelines has returned
    last_50,    \* the ids get_pipelines returned
    jobs,       \* the jobs get_jobs returned
    success, failed, others, all_jobs,
    run_chart,
    skipped_test_suites,
    content     \* <<the arguments the template was rendered with>>

vars ==
    <<api, file0, file, rng, pc, error, status, trace, pipeline, last_50, jobs, success,
      failed, others, all_jobs, run_chart, skipped_test_suites, content>>

Init ==
    /\ \E w \in Worlds :
          /\ api = [pipelines |-> w.pipelines, jobs |-> w.jobs, reports |-> w.reports]
          /\ rng = w.seed
          /\ file0 = w.file
    /\ file = file0
    /\ pc = "get_pipelines"
    /\ error = ""
    /\ status = 0
    /\ trace = <<>>
    /\ pipeline = <<>>
    /\ last_50 = <<>>
    /\ jobs = <<>>
    /\ success = <<>> /\ failed = <<>> /\ others = <<>> /\ all_jobs = <<>>
    /\ run_chart = <<>>
    /\ skipped_test_suites = <<>>
    /\ content = <<>>

\* one external effect, as recorded in trace
Get(url) == [kind |-> "GET", what |-> url]
Effect(kind, what) == [kind |-> kind, what |-> what]

\* an exception leaves main(): nothing catches it, the run is over
Raise(exception, code, sent) ==
    /\ pc' = "aborted"
    /\ error' = exception
    /\ status' = code
    /\ trace' = sent
    /\ UNCHANGED <<api, file0, file, rng, pipeline, last_50, jobs, success, failed,
                   others, all_jobs, run_chart, skipped_test_suites, content>>

(* ----------------------------- actions --------------------------------- *)

\* pipeline, last_50 = get_pipelines(DMSC_NIGHTLY_PROJECT_ID)
GetPipelines ==
    /\ pc = "get_pipelines"
    /\ \E response \in Responses :
          LET code == response.code
              sent == Append(trace, Get(PipelinesUrl(DMSC_NIGHTLY_PROJECT_ID)))
          IN  IF RaisesForStatus(code) THEN Raise("HTTPError", code, sent)
              ELSE IF ~response.json THEN Raise("JSONDecodeError", code, sent)
              ELSE IF Len(api.pipelines) = 0 THEN Raise("IndexError", code, sent)
              ELSE /\ pipeline' = <<api.pipelines[1]>>
                   /\ last_50' = Last50(api.pipelines)
                   /\ pc' = "get_jobs"
                   /\ trace' = sent
                   /\ status' = code
                   /\ UNCHANGED <<api, file0, file, rng, error, jobs, success, failed,
                                  others, all_jobs, run_chart, skipped_test_suites,
                                  content>>

\* jobs = get_jobs(...), the loop over jobs, all_jobs and its logging
GetJobs ==
    /\ pc = "get_jobs"
    /\ \E response \in Responses :
          LET code == response.code
              sent == Append(trace,
                             Get(JobsUrl(DMSC_NIGHTLY_PROJECT_ID, pipeline[1].id)))
              b == JobLoop(api.jobs, rng, Len(api.jobs))
          IN  IF RaisesForStatus(code) THEN Raise("HTTPError", code, sent)
              ELSE IF ~response.json THEN Raise("JSONDecodeError", code, sent)
              ELSE /\ jobs' = api.jobs
                   /\ success' = b.success
                   /\ failed' = b.failed
                   /\ others' = b.others
                   /\ rng' = b.rng
                   /\ all_jobs' = AllJobs(b)
                   /\ pc' = "history"
                   /\ trace' = sent
                   /\ status' = code
                   /\ UNCHANGED <<api, file0, file, error, pipeline, last_50, run_chart,
                                  skipped_test_suites, content>>

\* one iteration of the loop over last_50; the last one runs on to
\* run_chart.reverse()
GetHistoryReport ==
    /\ pc = "history"
    /\ \E response \in Responses :
          LET code == response.code
              pid == NextPid(last_50, run_chart)
              sent == Append(trace,
                             Get(TestReportUrl(DMSC_NIGHTLY_PROJECT_ID, pid)))
              entry == ChartEntry(pid, api.reports[pid])
          IN  IF RaisesForStatus(code) THEN Raise("HTTPError", code, sent)
              ELSE IF ~response.json THEN Raise("JSONDecodeError", code, sent)
              ELSE /\ run_chart' = ChartAfter(run_chart, entry, Len(last_50))
                   /\ pc' = IF Len(run_chart) + 1 = Len(last_50)
                            THEN "last_report" ELSE "history"
                   /\ trace' = sent
                   /\ status' = code
                   /\ UNCHANGED <<api, file0, file, rng, error, pipeline, last_50, jobs,
                                  success, failed, others, all_jobs,
                                  skipped_test_suites, content>>

\* last_run_test_report = get_test_report(..., pipeline_id) and the loops that
\* build skipped_test_suites
GetLastReport ==
    /\ pc = "last_report"
    /\ \E response \in Responses :
          LET code == response.code
              pipeline_id == pipeline[1].id
              sent == Append(trace,
                             Get(TestReportUrl(DMSC_NIGHTLY_PROJECT_ID, pipeline_id)))
              test_suites == api.reports[pipeline_id].test_suites
          IN  IF RaisesForStatus(code) THEN Raise("HTTPError", code, sent)
              ELSE IF ~response.json THEN Raise("JSONDecodeError", code, sent)
              ELSE /\ skipped_test_suites' =
                          SkippedLoop(test_suites, pipeline_id, Len(test_suites))
                   /\ pc' = "render"
                   /\ trace' = sent
                   /\ status' = code
                   /\ UNCHANGED <<api, file0, file, rng, error, pipeline, last_50, jobs,
                                  success, failed, others, all_jobs, run_chart, content>>

\* the date and percentage strings, the chart columns and template.render
Render ==
    /\ pc = "render"
    /\ content' = <<TemplateArgs(all_jobs, failed, run_chart, pipeline[1],
                                 skipped_test_suites)>>
    /\ pc' = "write"
    /\ trace' = Append(trace, Effect("render", "dashboard.html"))
    /\ UNCHANGED <<api, file0, file, rng, error, status, pipeline, last_50, jobs,
                   success, failed, others, all_jobs, run_chart, skipped_test_suites>>

\* open(filename, mode="w") and message.write(content)
WriteFile ==
    /\ pc = "write"
    /\ file' = "written"
    /\ pc' = "done"
    /\ trace' = Append(trace, Effect("write", filename))
    /\ UNCHANGED <<api, file0, rng, error, status, pipeline, last_50, jobs, success,
                   failed, others, all_jobs, run_chart, skipped_test_suites, content>>

Next ==
    \/ GetPipelines
    \/ GetJobs
    \/ GetHistoryReport
    \/ GetLastReport
    \/ Render
    \/ WriteFile

Spec == Init /\ [][Next]_vars

(* ======================= properties of main() ========================== *)

\* how often a job of the jobs response, known by its name, is in a bucket
InBucket(bucket, job) == Count(bucket, LAMBDA o : o.job_name = job.name)

\* the one object of a bucket built from a job of the response
TheJob(bucket, job) ==
    CHOOSE o \in {bucket[i] : i \in 1..Len(bucket)} : o.job_name = job.name

\* C1: every job of the jobs response with status exactly "success" is in the
\* success bucket once and in no other bucket, one with status exactly
\* "failed" is in the failed bucket once and in no other, and one with any
\* other status is in the others bucket once and in no other, its
\* job_run_status cleared to ""; the jobs of the success and failed buckets
\* keep the status they came with.
C1_BucketByStatus ==
    \A i \in 1..Len(jobs) :
        LET job == jobs[i]
            where == <<InBucket(success, job), InBucket(failed, job),
                       InBucket(others, job)>>
        IN  /\ job.status = "success" =>
                 /\ where = <<1, 0, 0>>
                 /\ TheJob(success, job).job_run_status = "success"
            /\ job.status = "failed" =>
                 /\ where = <<0, 1, 0>>
                 /\ TheJob(failed, job).job_run_status = "failed"
            /\ job.status \notin {"success", "failed"} =>
                 /\ where = <<0, 0, 1>>
                 /\ TheJob(others, job).job_run_status = ""

\* C1's case: a run got past the jobs loop with a job in each bucket
C1_Witness ==
    /\ pc = "history"
    /\ Len(success) = 1 /\ Len(failed) = 1 /\ Len(others) = 1

\* C2: all_jobs, which is what the template gets as gitlab_tests, holds every
\* job of the jobs response exactly once: the success jobs, then the failed
\* jobs, then the other jobs, each group in the order of the response.
C2_AllJobsOrder ==
    LET expected ==
            SelectSeq(jobs, LAMBDA j : j.status = "success")
                \o SelectSeq(jobs, LAMBDA j : j.status = "failed")
                \o SelectSeq(jobs, LAMBDA j : j.status \notin {"success", "failed"})
    IN  /\ Len(all_jobs) = Len(jobs)
        /\ \A i \in 1..Len(all_jobs) :
               /\ all_jobs[i].job_name = expected[i].name
               /\ all_jobs[i].job_run_url = expected[i].web_url
        /\ \A i \in 1..Len(jobs) : InBucket(all_jobs, jobs[i]) = 1
        /\ content # <<>> => content[1].gitlab_tests = all_jobs

\* C2's case: the template was rendered with three jobs that the grouping
\* reorders (a failed job first in the response, two other jobs around a
\* success job)
C2_Witness ==
    /\ content # <<>>
    /\ Len(jobs) = 3
    /\ jobs[1].status = "running" /\ jobs[2].status = "failed"
    /\ jobs[3].status = "success"

\* the ids get_pipelines is to return: those of the first 50 entries at most
FetchedIds ==
    [i \in 1..Min(Len(api.pipelines), 50) |-> api.pipelines[i].id]

\* the loop over last_50 has run to its end and run_chart is reversed
ChartDone == Len(last_50) > 0 /\ Len(run_chart) = Len(last_50)

\* C3: after the reversal run_chart has one entry per fetched pipeline id, the
\* entry of the i-th fetched id at position n + 1 - i (n - 1 - i counted from
\* 0), so its last entry is the latest pipeline's; the four chart arrays of
\* the template have that length and at each index hold the id and the counts
\* of one and the same pipeline.
C3_RunChartReversed ==
    ChartDone =>
        LET n == Len(FetchedIds)
        IN  /\ Len(run_chart) = n
            /\ \A i \in 1..n :
                   LET pid == FetchedIds[i]
                       e == run_chart[n + 1 - i]
                   IN  /\ e[1] = pid
                       /\ e[2] = api.reports[pid].total_count
                       /\ e[4] = api.reports[pid].failed_count
                       /\ e[5] = api.reports[pid].skipped_count
            /\ Last(run_chart)[1] = api.pipelines[1].id
            /\ content # <<>> =>
                   LET c == content[1]
                   IN  /\ Len(c.pipeline_run_ids) = n /\ Len(c.number_of_tests) = n
                       /\ Len(c.failing_test) = n /\ Len(c.skipped_tests) = n
                       /\ \A k \in 1..n :
                              LET r == api.reports[c.pipeline_run_ids[k]]
                              IN  /\ c.pipeline_run_ids[k] = FetchedIds[n + 1 - k]
                                  /\ c.number_of_tests[k] = r.total_count
                                  /\ c.failing_test[k] = r.failed_count
                                  /\ c.skipped_tests[k] = r.skipped_count

\* C3's case: the template was rendered from two pipelines whose test counts
\* all differ
C3_Witness ==
    /\ content # <<>>
    /\ Len(run_chart) = 2
    /\ run_chart[1][2] # run_chart[2][2]
    /\ run_chart[1][4] # run_chart[2][4]
    /\ run_chart[1][5] # run_chart[2][5]

\* C4: the failed-percentage of every run_chart entry is 0.0 when the
\* pipeline's total_count is 0, whatever its failed_count, with no division
\* by zero, and failed_count / total_count * 100 when total_count > 0.
C4_FailedPercentage ==
    /\ error # "ZeroDivisionError"
    /\ \A k \in 1..Len(run_chart) :
           LET e == run_chart[k]
               r == api.reports[e[1]]
           IN  /\ r.total_count = 0 => e[3] = [num |-> 0, den |-> 1]
               /\ r.total_count > 0 =>
                      /\ e[3].den > 0
                      /\ e[3].num * r.total_count = r.failed_count * 100 * e[3].den

\* C4's case: an entry of a pipeline with failed tests and total_count = 0,
\* beside one with total_count > 0
C4_Witness ==
    /\ Len(run_chart) = 2
    /\ api.reports[run_chart[1][1]].total_count = 0
    /\ api.reports[run_chart[1][1]].failed_count = 2
    /\ api.reports[run_chart[2][1]].total_count = 3

\* the run is over by an exception raised on an empty pipelines list
EmptyListFailure ==
    /\ pc = "aborted"
    /\ Len(api.pipelines) = 0
    /\ error # "HTTPError" /\ error # "JSONDecodeError"

\* C5: on an empty pipelines list the run fails with a clear "no pipelines
\* found" condition, not an indexing error, before any jobs or test-report
\* request and before the output file is written.
C5_NoPipelinesFound ==
    EmptyListFailure =>
        /\ error = "no pipelines found"
        /\ Len(trace) = 1
        /\ file = file0

\* what does hold of the code on an empty pipelines list: it fails, before any
\* further request and before the file is written
C5_FailsEarly ==
    (Len(api.pipelines) = 0 /\ status # 0) =>
        /\ pc = "aborted"
        /\ trace = <<Get(PipelinesUrl(DMSC_NIGHTLY_PROJECT_ID))>>
        /\ file = file0
        /\ content = <<>>

\* the run was ended by an exception of its latest request, with nothing
\* after it: no step of main() is left to take (no request again, of this or
\* another URL), the trace ends with that request and holds requests only (no
\* render, no write), the file is as it was
AbortedAtRequest ==
    /\ pc = "aborted"
    /\ ~ ENABLED Next
    /\ \A i \in 1..Len(trace) : trace[i].kind = "GET"
    /\ content = <<>>
    /\ file = file0

WholeRun ==
    LET latest == api.pipelines[1].id
    IN  <<Get(PipelinesUrl(301)), Get(JobsUrl(301, latest))>>
            \o [i \in 1..Len(FetchedIds) |-> Get(TestReportUrl(301, FetchedIds[i]))]
            \o <<Get(TestReportUrl(301, latest)), Effect("render", "dashboard.html"),
                 Effect("write", "render/rendered.html")>>

\* C7: a successful run's external effects are, in this order and each once:
\* the pipelines request, the jobs request of the latest pipeline, the
\* test-report requests of the fetched ids in the list's order, the
\* test-report request of the latest pipeline, the render, the write.  A run
\* under way has done a prefix of them, and the file is written only by a run
\* that has done them all.
C7_LinearOrder ==
    /\ Len(api.pipelines) > 0 =>
           /\ Len(trace) <= Len(WholeRun)
           /\ trace = SubSeq(WholeRun, 1, Len(trace))
    /\ pc = "done" => trace = WholeRun /\ error = ""
    /\ file = "written" => pc = "done"
    /\ content # <<>> => Len(trace) >= Len(WholeRun) - 1

\* C7's case: a run over three pipelines is done
C7_Witness == pc = "done" /\ file = "written" /\ Len(last_50) = 3

\* how many requests of the test report of pipeline pid the run has made
ReportRequests(pid) ==
    Count(trace, LAMBDA e : e = Get(TestReportUrl(301, pid)))

\* C8: get_pipelines returns no more than 50 ids, the first of the response; a
\* successful run over n ids makes n + 1 test-report requests: two for the
\* latest pipeline (the first id), one for every other id.
C8_ReportRequests ==
    /\ Len(last_50) <= 50
    /\ pipeline # <<>> => last_50 = FetchedIds /\ pipeline[1].id = last_50[1]
    /\ pc = "done" =>
           LET n == Len(last_50)
           IN  /\ n >= 1
               /\ Count(trace, LAMBDA e : e.kind = "GET") = n + 3
               /\ Count(trace, LAMBDA e :
                            \E i \in 1..n : e = Get(TestReportUrl(301, last_50[i])))
                      = n + 1
               /\ n + 1 <= 51
               /\ \A i \in 1..n :
                      ReportRequests(last_50[i]) = IF i = 1 THEN 2 ELSE 1

\* C8's case: a run is done whose pipelines response held more than 50
\* entries
C8_Witness == pc = "done" /\ Len(api.pipelines) > 50 /\ Len(last_50) = 50

\* a number of hundredths, printed with two decimals and "%"
TwoDecimals(h) ==
    ToString(h \div 100) \o "." \o ToString((h \div 10) % 10) \o ToString(h % 10)
        \o "%"

\* C9: the failed_job_percentage string of the template is the
\* failed-percentage of the latest pipeline, the first of the pipelines
\* response and the one given as pipeline_id, to the nearest hundredth with
\* two decimals and "%": "20.00%" for 2 failed tests of 10, "0.00%" for a
\* total_count of 0.
C9_LatestPercentageString ==
    content # <<>> =>
        LET latest == api.pipelines[1].id
            r == api.reports[latest]
            str == content[1].failed_job_percentage
        IN  /\ content[1].pipeline_id = latest
            /\ r.total_count = 0 => str = "0.00%"
            /\ (r.total_count = 10 /\ r.failed_count = 2) => str = "20.00%"
            /\ r.total_count > 0 =>
                   \E h \in 0..((10000 * r.failed_count) \div r.total_count + 1) :
                       /\ 2 * h * r.total_count <= 2 * 10000 * r.failed_count + r.total_count
                       /\ 2 * h * r.total_count >= 2 * 10000 * r.failed_count - r.total_count
                       /\ str = TwoDecimals(h)

\* C9's case: the template was rendered from two pipelines, the latest with 2
\* failed tests of 10 and the older one with another percentage
C9_Witness ==
    /\ content # <<>>
    /\ Len(api.pipelines) = 2
    /\ api.reports[api.pipelines[1].id].total_count = 10
    /\ api.reports[api.pipelines[1].id].failed_count = 2
    /\ api.reports[api.pipelines[2].id].total_count = 3
    /\ api.reports[api.pipelines[2].id].failed_count = 2

\* the test suites of the latest pipeline's report, and the places <<suite,
\* case>> of its skipped test cases
LatestSuites == api.reports[api.pipelines[1].id].test_suites
SkippedPlaces ==
    UNION {{<<i, j>> : j \in {k \in 1..Len(LatestSuites[i].test_cases) :
                                   LatestSuites[i].test_cases[k].status = "skipped"}}
              : i \in 1..Len(LatestSuites)}
\* the position of a skipped place among the skipped places, by suite and
\* then by case
Rank(p) ==
    Cardinality({q \in SkippedPlaces :
                    q[1] < p[1] \/ (q[1] = p[1] /\ q[2] <= p[2])})

\* C10: skipped_test_suites, which is what the template gets, has one entry
\* (classname, name, URL) for each test case of the latest pipeline's report
\* whose status is exactly "skipped" and none for any other case, by suite and
\* then by case; the URL is built from the latest pipeline's id and the name,
\* percent-encoded, of the suite that holds the case.
C10_SkippedTable ==
    pc \in {"render", "write", "done"} =>
        /\ Len(skipped_test_suites) = Cardinality(SkippedPlaces)
        /\ \A p \in SkippedPlaces :
               LET test == LatestSuites[p[1]]
                   entry == skipped_test_suites[Rank(p)]
               IN  /\ entry[1] = test.test_cases[p[2]].classname
                   /\ entry[2] = test.test_cases[p[2]].name
                   /\ entry[3] = JobNameUrl(api.pipelines[1].id, test.name)
                   /\ (test.name = <<"A", " ", "B">> /\ api.pipelines[1].id = 42) =>
                          entry[3] = "https://git.esss.dk/dmsc-nightly/dmsc-nightly/-/pipelines/42/test_report?job_name=A%20B"
        /\ content # <<>> => content[1].skipped_test_suites = skipped_test_suites

\* C10's case: the table is built from two suites, the first with a case that
\* is not skipped before a skipped one, the second with two skipped cases
C10_Witness ==
    /\ pc = "render"
    /\ Len(LatestSuites) = 2
    /\ Len(LatestSuites[1].test_cases) = 2
    /\ LatestSuites[1].test_cases[1].status = "failed"
    /\ LatestSuites[1].test_cases[2].status = "skipped"
    /\ Len(LatestSuites[2].test_cases) = 2
    /\ Len(skipped_test_suites) = 3

====
